---- MODULE Spec2Model ----
(***************************************************************************)
(* A model of the Glue Trigger constructs of @aws-cdk/aws-glue:            *)
(*   - Trigger            (lib/trigger.ts, and the revision of it that     *)
(*                         carries the event and metric accessors)         *)
(*   - ScheduledTrigger   (the enum-based revision)                        *)
(* The state is the scope tree of one Stack: the constructs declared in    *)
(* it, their children and the fields the constructors assign.              *)
(***************************************************************************)
EXTENDS Naturals, Sequences, FiniteSets, TLC

VARIABLES
    tree,       \* the Stack's children: construct id -> construct node
    lastCall    \* the outcome of the last call: what it raised, what it returned

vars == <<tree, lastCall>>

(***************************************************************************)
(* Optional values: `undefined` is the empty sequence, a value v is <<v>>. *)
(***************************************************************************)
Undefined == <<>>
Some(v) == <<v>>
IsDefined(o) == o # <<>>
ValueOf(o) == o[1]
\* a ?? b
OrElse(a, b) == IF IsDefined(a) THEN a ELSE b

(***************************************************************************)
(* Bounds of the model.                                                    *)
(***************************************************************************)
\* how many event rules one trigger gets
MaxRules == 2

(***************************************************************************)
(* The inputs.                                                             *)
(***************************************************************************)
\* construct ids the caller declares in the Stack (those of the tests)
Ids == {"Trigger", "triggerWithName"}

\* class TriggerType: four static instances, each with a name token
TriggerType ==
    [ Scheduled   |-> [name |-> "SCHEDULED"],
      JobEvents   |-> [name |-> "JOB_EVENTS"],
      onDemand    |-> [name |-> "ON_DEMAND"],
      conditional |-> [name |-> "CONDITIONAL"] ]

\* the values of TriggerType a caller can pass (its constructor is private)
TriggerTypeValues == { TriggerType[k] : k \in DOMAIN TriggerType }

\* enum TriggerType of the ScheduledTrigger revision
TriggerTypeEnum ==
    [ SCHEDULED   |-> "SCHEDULED",
      EVENT       |-> "EVENT",
      ON_DEMAND   |-> "ON_DEMAND",
      CONDITIONAL |-> "CONDITIONAL" ]

\* enum TriggerState of the ScheduledTrigger revision: member |-> token
TriggerState ==
    [ CREATED      |-> "CREATED",
      ACTIVATED    |-> " ACTIVATED",
      DEACTIVATED  |-> "DEACTIVATED",
      ACTIVATING   |-> "ACTIVATING",
      CREATING     |-> "CREATING",
      DEACTIVATING |-> "DEACTIVATING",
      DELETING     |-> "DELETING",
      UPDATING     |-> "UPDATING" ]

\* enum TriggerState of lib/trigger.ts
TriggerStateOfTrigger ==
    [ CREATED     |-> "CREATED",
      ACTIVATED   |-> " ACTIVATED",
      DEACTIVATED |-> "DEACTIVATED",
      ACTIVATING  |-> "ACTIVATING" ]

\* the TriggerState enum that the module of a construct's class exports
TriggerStateOf(cls) ==
    IF cls = "Trigger" THEN TriggerStateOfTrigger ELSE TriggerState

\* events.Schedule objects: Schedule.expression(s) has expressionString = s
Schedules == { [expressionString |-> "cron(0 12 * * ? *)"] }

\* predicates of a conditional trigger (CfnTrigger.PredicateProperty)
Predicates ==
    { [ logical    |-> Some("AND"),
        conditions |-> Some(<< [jobName |-> Some("job1"), state |-> Some("SUCCEEDED"),
                                 logicalOperator |-> Some("EQUALS")],
                               [jobName |-> Some("job2"), state |-> Undefined,
                                 logicalOperator |-> Undefined] >>) ] }

\* a role the caller brings
ImportedRole == [kind |-> "Role", path |-> <<"ImportedRole">>,
                 assumedBy |-> "custom.amazonaws.com", managedPolicies |-> <<>>]

\* the fields the constructors only pass through, in two settings: those of
\* the tests' defaultProps, and the other way round (workflowName left out,
\* every other one set)
Extras ==
    { [ actions |-> <<>>, workflowName |-> Some(""), description |-> Undefined,
        startOnCreation |-> Undefined, tags |-> Undefined ],
      [ actions |-> << [jobName |-> "job1"] >>, workflowName |-> Undefined,
        description |-> Some("test trigger"), startOnCreation |-> Some(TRUE),
        tags |-> Some([key |-> "value"]) ] }

Opt(S) == {Undefined} \cup { Some(v) : v \in S }

\* interface TriggerProps
TriggerPropsSet ==
    { [ actions         |-> x.actions,
        description     |-> x.description,
        predicate       |-> p,
        schedule        |-> s,
        startOnCreation |-> x.startOnCreation,
        type            |-> t,
        workflowName    |-> x.workflowName,
        triggerName     |-> n,
        tags            |-> x.tags,
        role            |-> r ] :
      x \in Extras, p \in Opt(Predicates), s \in Opt(Schedules),
      t \in TriggerTypeValues, n \in Opt({"test-trigger"}), r \in Opt({ImportedRole}) }

\* interface ScheduledTriggerProps extends TriggerBaseProps
ScheduledTriggerPropsSet ==
    { [ actions         |-> x.actions,
        description     |-> x.description,
        workflowName    |-> x.workflowName,
        triggerName     |-> n,
        tags            |-> x.tags,
        schedule        |-> s,
        startOnCreation |-> x.startOnCreation ] :
      x \in Extras, s \in Opt(Schedules), n \in Opt({"test-trigger"}) }

(***************************************************************************)
(* The collaborators: the scope tree, the templating engine's tokens.      *)
(***************************************************************************)
NoChildren == << >>

\* Node.tryFindChild(id)
tryFindChild(children, id) ==
    IF id \in DOMAIN children THEN Some(children[id]) ELSE Undefined

\* Node.addChild: the children with `child` registered under `id`
addChild(children, id, child) ==
    [ c \in (DOMAIN children) \cup {id} |-> IF c = id THEN child ELSE children[c] ]

\* the logical id of a CfnResource: the path without 'Resource', and the first
\* eight hex digits of the md5 of the path
LogicalId(path) ==
    CASE path = <<"Trigger", "Resource">>         -> "TriggerD50EE54C"
      [] path = <<"triggerWithName", "Resource">> -> "triggerWithName527490FE"
      [] OTHER                                    -> "Unknown"

\* CfnResource.ref: the deferred reference { Ref: logicalId }
Ref(path) == [Ref |-> LogicalId(path)]

\* Resource.getResourceNameAttribute(nameAttr), read in the resource's own stack
getResourceNameAttribute(nameAttr) == nameAttr

\* a literal piece of a deferred string
Lit(s) == [lit |-> s]

\* Stack.formatArn(components): the pieces of
\*   arn:{partition}:{service}:{region}:{account}:{resource}/{resourceName}
formatArn(components) ==
    << Lit("arn:"), [Ref |-> "AWS::Partition"], Lit(":"), Lit(components.service),
       Lit(":"), [Ref |-> "AWS::Region"], Lit(":"), [Ref |-> "AWS::AccountId"],
       Lit(":"), Lit(components.resource), Lit("/"), components.resourceName >>

(***************************************************************************)
(* The generated resource schema: how CfnTrigger renders a predicate to    *)
(* CloudFormation, and how the template is read back.                      *)
(***************************************************************************)
\* the record of the fields of m that are set, under their CloudFormation names
Rendered(m) == [ k \in { x \in DOMAIN m : IsDefined(m[x]) } |-> ValueOf(m[k]) ]

\* the field k of a rendered object, undefined when the object lacks it
Field(o, k) == IF k \in DOMAIN o THEN Some(o[k]) ELSE Undefined

\* cfnTriggerConditionPropertyToCloudFormation
ConditionToCloudFormation(c) ==
    Rendered([ JobName |-> c.jobName, LogicalOperator |-> c.logicalOperator,
               State |-> c.state ])

ConditionFromCloudFormation(o) ==
    [ jobName |-> Field(o, "JobName"), state |-> Field(o, "State"),
      logicalOperator |-> Field(o, "LogicalOperator") ]

\* cfnTriggerPredicatePropertyToCloudFormation
PredicateToCloudFormation(p) ==
    Rendered([ Logical    |-> p.logical,
               Conditions |-> IF IsDefined(p.conditions)
                              THEN Some([ i \in DOMAIN ValueOf(p.conditions) |->
                                          ConditionToCloudFormation(ValueOf(p.conditions)[i]) ])
                              ELSE Undefined ])

PredicateFromCloudFormation(o) ==
    [ logical    |-> Field(o, "Logical"),
      conditions |-> IF "Conditions" \in DOMAIN o
                     THEN Some([ i \in DOMAIN o.Conditions |->
                                 ConditionFromCloudFormation(o.Conditions[i]) ])
                     ELSE Undefined ]

\* the values the deployment gives the deferred references
Resolved(ref) ==
    CASE ref = "AWS::Partition" -> "aws"
      [] ref = "AWS::Region"    -> "us-east-1"
      [] ref = "AWS::AccountId" -> "123456789012"
      [] OTHER                  -> ref

\* stack.resolve of a deferred string, at deployment: its pieces as strings
ResolvePieces(pieces) ==
    [ i \in DOMAIN pieces |->
        IF "lit" \in DOMAIN pieces[i] THEN pieces[i].lit ELSE Resolved(pieces[i].Ref) ]

(***************************************************************************)
(* function triggeerArn(scope, jobName)                                    *)
(***************************************************************************)
triggeerArn_job(scope, jobName) ==
    formatArn([service |-> "glue", resource |-> "job", resourceName |-> jobName])

triggeerArn(scope, jobName) ==
    formatArn([service |-> "glue", resource |-> "trigger", resourceName |-> jobName])

(***************************************************************************)
(* class Trigger: the constructor, step by step.                           *)
(***************************************************************************)
\* new iam.Role(this, 'ServiceRole', {assumedBy, managedPolicies})
DefaultRole(id) ==
    [ kind            |-> "Role",
      path            |-> <<id, "ServiceRole">>,
      assumedBy       |-> "glue.amazonaws.com",
      managedPolicies |-> <<"service-role/AWSGlueServiceRole">> ]

\* this.role = props.role ?? new iam.Role(this, 'ServiceRole', ...);
\* this.grantPrincipal = this.role
\* The role is declared (a child is registered) only when ?? evaluates its
\* right-hand side.
TriggerRoleStep_noDefault(id, props) ==
    [ role           |-> props.role,
      grantPrincipal |-> props.role,
      children       |-> NoChildren ]

TriggerRoleStep_alwaysDeclare(id, props) ==
    [ role           |-> Some(DefaultRole(id)),
      grantPrincipal |-> Some(DefaultRole(id)),
      children       |-> addChild(NoChildren, "ServiceRole", DefaultRole(id)) ]

TriggerRoleStep(id, props) ==
    LET role == OrElse(props.role, Some(DefaultRole(id)))
    IN  [ role           |-> role,
          grantPrincipal |-> role,
          children       |-> IF IsDefined(props.role) THEN NoChildren
                             ELSE addChild(NoChildren, "ServiceRole", DefaultRole(id)) ]

\* the object literal handed to new CfnTrigger(this, 'Resource', {...}).
\* props.schedule.expressionString and props.type.name are plain member
\* reads: they raise a TypeError on undefined.
CfnTriggerPropsRaises(props) == ~IsDefined(props.schedule)

CfnTriggerProps_noName(props) ==
    [ workflowName    |-> props.workflowName,
      tags            |-> props.tags,
      startOnCreation |-> props.startOnCreation,
      schedule        |-> Some(ValueOf(props.schedule).expressionString),
      predicate       |-> props.predicate,
      name            |-> Undefined,
      actions         |-> props.actions,
      description     |-> props.description,
      type            |-> Some(props.type.name) ]

CfnTriggerProps_noPredicate(props) ==
    [ workflowName    |-> props.workflowName,
      tags            |-> props.tags,
      startOnCreation |-> props.startOnCreation,
      schedule        |-> Some(ValueOf(props.schedule).expressionString),
      predicate       |-> Undefined,
      name            |-> props.triggerName,
      actions         |-> props.actions,
      description     |-> props.description,
      type            |-> Some(props.type.name) ]

CfnTriggerProps_noSchedule(props) ==
    [ workflowName    |-> props.workflowName,
      tags            |-> props.tags,
      startOnCreation |-> props.startOnCreation,
      schedule        |-> Undefined,
      predicate       |-> props.predicate,
      name            |-> props.triggerName,
      actions         |-> props.actions,
      description     |-> props.description,
      type            |-> Some(props.type.name) ]

CfnTriggerProps(props) ==
    [ workflowName    |-> props.workflowName,
      tags            |-> props.tags,
      startOnCreation |-> props.startOnCreation,
      schedule        |-> Some(ValueOf(props.schedule).expressionString),
      predicate       |-> props.predicate,
      name            |-> props.triggerName,
      actions         |-> props.actions,
      description     |-> props.description,
      type            |-> Some(props.type.name) ]

TriggerCtor_unqualifiedRef(id, props) ==
    LET r    == TriggerRoleStep(id, props)
        base == [ cls            |-> "Trigger",
                  props          |-> props,
                  physicalName   |-> props.triggerName,
                  role           |-> r.role,
                  grantPrincipal |-> r.grantPrincipal,
                  children       |-> r.children,
                  triggerArn     |-> Undefined,
                  triggerName    |-> Undefined,
                  jobName        |-> Undefined,
                  constructed    |-> FALSE ]
        resourceName == getResourceNameAttribute(Ref(<<"Resource">>))
    IN  IF CfnTriggerPropsRaises(props)
        THEN [ node |-> base, raised |-> Some("TypeError") ]
        ELSE [ node |-> [ base EXCEPT
                   !.children    = addChild(r.children, "Resource",
                                       [kind |-> "CfnTrigger", props |-> CfnTriggerProps(props)]),
                   !.triggerArn  = Some(triggeerArn(id, resourceName)),
                   !.triggerName = Some(resourceName),
                   !.constructed = TRUE ],
               raised |-> Undefined ]

\* the Trigger object as the constructor leaves it: every statement up to the
\* one that raises has had its effect
TriggerCtor(id, props) ==
    LET r    == TriggerRoleStep(id, props)
        base == [ cls            |-> "Trigger",
                  props          |-> props,
                  physicalName   |-> props.triggerName,
                  role           |-> r.role,
                  grantPrincipal |-> r.grantPrincipal,
                  children       |-> r.children,
                  triggerArn     |-> Undefined,
                  triggerName    |-> Undefined,
                  jobName        |-> Undefined,
                  constructed    |-> FALSE ]
        resourceName == getResourceNameAttribute(Ref(<<id, "Resource">>))
    IN  IF CfnTriggerPropsRaises(props)
        THEN [ node |-> base, raised |-> Some("TypeError") ]
        ELSE [ node |-> [ base EXCEPT
                   !.children    = addChild(r.children, "Resource",
                                       [kind |-> "CfnTrigger", props |-> CfnTriggerProps(props)]),
                   !.triggerArn  = Some(triggeerArn(id, resourceName)),
                   !.triggerName = Some(resourceName),
                   !.constructed = TRUE ],
               raised |-> Undefined ]

NewTrigger_replace(id, props) ==
    LET c == TriggerCtor(id, props)
    IN  /\ tree' = addChild(tree, id, c.node)
        /\ lastCall' = [ op |-> "new Trigger", id |-> id, rid |-> "",
                         raised |-> c.raised,
                         ret |-> IF IsDefined(c.raised) THEN Undefined ELSE Some(<<id>>) ]

\* new Trigger(stack, id, props).  super(scope, id, ...) registers the
\* construct in the scope first, and raises when the id is taken.
NewTrigger(id, props) ==
    IF id \in DOMAIN tree
    THEN /\ tree' = tree
         /\ lastCall' = [ op |-> "new Trigger", id |-> id, rid |-> "",
                          raised |-> Some("DuplicateDeclarationError"), ret |-> Undefined ]
    ELSE LET c == TriggerCtor(id, props)
         IN  /\ tree' = addChild(tree, id, c.node)
             /\ lastCall' = [ op |-> "new Trigger", id |-> id, rid |-> "",
                              raised |-> c.raised,
                              ret |-> IF IsDefined(c.raised) THEN Undefined
                                      ELSE Some(<<id>>) ]

(***************************************************************************)
(* class ScheduledTrigger                                                  *)
(***************************************************************************)
ScheduledCfnTriggerProps(props) ==
    [ workflowName    |-> props.workflowName,
      tags            |-> props.tags,
      startOnCreation |-> props.startOnCreation,
      schedule        |-> IF IsDefined(props.schedule)
                          THEN Some(ValueOf(props.schedule).expressionString)
                          ELSE Undefined,
      predicate       |-> Undefined,
      name            |-> props.triggerName,
      actions         |-> props.actions,
      description     |-> props.description,
      type            |-> Some(TriggerTypeEnum.SCHEDULED) ]

ScheduledTriggerCtor(id, props) ==
    LET resourceName == getResourceNameAttribute(Ref(<<id, "Resource">>))
    IN  [ node |-> [ cls            |-> "ScheduledTrigger",
                     props          |-> props,
                     physicalName   |-> props.triggerName,
                     role           |-> Undefined,
                     grantPrincipal |-> Undefined,
                     children       |-> addChild(NoChildren, "Resource",
                                          [kind |-> "CfnTrigger",
                                           props |-> ScheduledCfnTriggerProps(props)]),
                     triggerArn     |-> Some(triggeerArn(id, resourceName)),
                     triggerName    |-> Some(resourceName),
                     jobName        |-> Undefined,
                     constructed    |-> TRUE ],
          raised |-> Undefined ]

NewScheduledTrigger(id, props) ==
    IF id \in DOMAIN tree
    THEN /\ tree' = tree
         /\ lastCall' = [ op |-> "new ScheduledTrigger", id |-> id, rid |-> "",
                          raised |-> Some("DuplicateDeclarationError"), ret |-> Undefined ]
    ELSE LET c == ScheduledTriggerCtor(id, props)
         IN  /\ tree' = addChild(tree, id, c.node)
             /\ lastCall' = [ op |-> "new ScheduledTrigger", id |-> id, rid |-> "",
                              raised |-> c.raised, ret |-> Some(<<id>>) ]

(***************************************************************************)
(* The declaration of constructs in one Stack.                             *)
(***************************************************************************)
Init ==
    /\ tree = << >>
    /\ lastCall = [ op |-> "new Stack", id |-> "", rid |-> "", raised |-> Undefined, ret |-> Undefined ]

\* The props a declaration under `id` is tried with.  super() raises on a taken
\* id before the constructor reads anything of props that decides its outcome,
\* so one value of props stands for all of them there.
PropsFor(id, S) == IF id \in DOMAIN tree THEN {CHOOSE p \in S : TRUE} ELSE S

DeclareTrigger ==
    \E id \in Ids : \E props \in PropsFor(id, TriggerPropsSet) : NewTrigger(id, props)

DeclareScheduledTrigger ==
    \E id \in Ids : \E props \in PropsFor(id, ScheduledTriggerPropsSet) :
        NewScheduledTrigger(id, props)

Next == DeclareTrigger \/ DeclareScheduledTrigger

Spec == Init /\ [][Next]_vars

(***************************************************************************)
(* The event and metric accessors of TriggerBase.                          *)
(***************************************************************************)
\* enum triggerState
triggerState ==
    [ SUCCEEDED |-> "SUCCEEDED", FAILED |-> "FAILED", TIMEOUT |-> "TIMEOUT",
      STARTING |-> "STARTING", RUNNING |-> "RUNNING", STOPPING |-> "STOPPING",
      STOPPED |-> "STOPPED" ]

\* an event pattern; a field that is not set is the empty sequence
EmptyPattern ==
    [ source |-> <<>>, detailType |-> <<>>,
      detail |-> [jobName |-> <<>>, state |-> <<>>] ]

RECURSIVE Dedupe(_)
\* the values of an array, each kept where it first occurs
Dedupe(a) ==
    IF a = <<>> THEN <<>>
    ELSE LET front == Dedupe(SubSeq(a, 1, Len(a) - 1))
             last  == a[Len(a)]
         IN  IF \E i \in 1..Len(front) : front[i] = last THEN front
             ELSE Append(front, last)

\* mergeEventPattern on one array field: a field the destination lacks is
\* set, two arrays are concatenated and deduplicated
MergeArray(dest, src) ==
    IF src = <<>> THEN dest
    ELSE IF dest = <<>> THEN src
    ELSE Dedupe(dest \o src)

\* mergeEventPattern(dest, src)
mergeEventPattern(dest, src) ==
    [ source     |-> MergeArray(dest.source, src.source),
      detailType |-> MergeArray(dest.detailType, src.detailType),
      detail     |-> [ jobName |-> MergeArray(dest.detail.jobName, src.detail.jobName),
                       state   |-> MergeArray(dest.detail.state, src.detail.state) ] ]

\* Rule.addEventPattern(eventPattern)
addEventPattern(rule, eventPattern) ==
    [ rule EXCEPT !.eventPattern = mergeEventPattern(@, eventPattern) ]

\* new events.Rule(scope, id, props), once the scope has taken the id
RuleCtor(tid, rid, options) ==
    [ kind         |-> "Rule",
      path         |-> <<tid, rid>>,
      description  |-> options.description,
      eventPattern |-> mergeEventPattern(EmptyPattern,
                           IF IsDefined(options.eventPattern)
                           THEN ValueOf(options.eventPattern) ELSE EmptyPattern) ]

\* events.OnEventOptions the callers pass: none, and a description with an
\* event pattern of the caller's own
NoOptions == [ description |-> Undefined, eventPattern |-> Undefined ]

OptionsSet ==
    { NoOptions,
      [ description  |-> Some([literal |-> "my rule"]),
        eventPattern |-> Some([ source |-> <<"my.source">>, detailType |-> <<"My Type">>,
                                detail |-> [ jobName |-> << Some("otherJob") >>,
                                             state   |-> <<"STOPPED">> ] ]) ] }

\* the child ids the callers pass to the event accessors
RuleIds == {"SuccessMetricRule", "FailureMetricRule", "TimeoutMetricRule", "Resource"}

\* the job states the callers pass to onStateChange
JobStates == { triggerState.SUCCEEDED, triggerState.RUNNING }

\* TriggerBase.onEvent(id, options): the node after the call, what the call
\* raised and what it returned (the path of the rule)
onEvent_findOrCreate(node, tid, rid, options) ==
    IF rid \in DOMAIN node.children
    THEN [ node |-> node, raised |-> Undefined, ret |-> Some(<<tid, rid>>) ]
    ELSE [ node   |-> [ node EXCEPT !.children = addChild(@, rid,
                          addEventPattern(RuleCtor(tid, rid, options),
                            [ source     |-> <<"aws.glue">>,
                              detailType |-> <<"Glue Job State Change", "Glue Job Run Status">>,
                              detail     |-> [ jobName |-> << node.jobName >>,
                                               state   |-> <<>> ] ])) ],
           raised |-> Undefined,
           ret    |-> Some(<<tid, rid>>) ]

onEvent_replace(node, tid, rid, options) ==
    [ node   |-> [ node EXCEPT !.children =
                     [ c \in DOMAIN node.children \cup {rid} |->
                         IF c = rid
                         THEN addEventPattern(RuleCtor(tid, rid, options),
                                [ source     |-> <<"aws.glue">>,
                                  detailType |-> <<"Glue Job State Change", "Glue Job Run Status">>,
                                  detail     |-> [ jobName |-> << node.jobName >>,
                                                   state   |-> <<>> ] ])
                         ELSE node.children[c] ] ],
      raised |-> Undefined,
      ret    |-> Some(<<tid, rid>>) ]

onEvent(node, tid, rid, options) ==
    IF rid \in DOMAIN node.children
    THEN \* new events.Rule(this, id, options): the scope refuses the id
         [ node |-> node, raised |-> Some("DuplicateDeclarationError"), ret |-> Undefined ]
    ELSE [ node   |-> [ node EXCEPT !.children = addChild(@, rid,
                          addEventPattern(RuleCtor(tid, rid, options),
                            [ source     |-> <<"aws.glue">>,
                              detailType |-> <<"Glue Job State Change", "Glue Job Run Status">>,
                              detail     |-> [ jobName |-> << node.jobName >>,
                                               state   |-> <<>> ] ])) ],
           raised |-> Undefined,
           ret    |-> Some(<<tid, rid>>) ]

\* TriggerBase.onStateChange(id, jobState, options)
onStateChange(node, tid, rid, jobState, options) ==
    LET described ==
            [ options EXCEPT !.description =
                OrElse(@, Some([ template |-> "Rule triggered when Glue job {jobName} is in {jobState} state",
                                 jobName  |-> node.jobName,
                                 jobState |-> jobState ])) ]
        r == onEvent(node, tid, rid, described)
    IN  IF IsDefined(r.raised) THEN r
        ELSE [ r EXCEPT !.node.children[rid] =
                 addEventPattern(@, [ EmptyPattern EXCEPT !.detail.state = << jobState >> ]) ]

\* TriggerBase.onSuccess / onFailure / onTimeout (id, options)
onSuccess(node, tid, rid, options) ==
    onStateChange(node, tid, rid, triggerState.SUCCEEDED, options)

onFailure(node, tid, rid, options) ==
    onStateChange(node, tid, rid, triggerState.FAILED, options)

onTimeout(node, tid, rid, options) ==
    onStateChange(node, tid, rid, triggerState.TIMEOUT, options)

\* cloudwatch.MetricOptions the callers pass
NoMetricOptions == [ namespace |-> Undefined, dimensionsMap |-> Undefined ]

MetricOptionsSet ==
    { NoMetricOptions,
      [ namespace |-> Some("MyNamespace"), dimensionsMap |-> Some([Mine |-> "dimension"]) ] }

MetricNames == {"glue.driver.aggregate.bytesRead"}
MetricTypes == {"gauge", "count"}

\* TriggerBase.metric(metricName, type, props): { defaults, ...props }
metric(node, metricName, type, props) ==
    [ metricName    |-> metricName,
      namespace     |-> OrElse(props.namespace, Some("Glue")),
      dimensionsMap |-> OrElse(props.dimensionsMap,
                          Some([ JobName |-> node.jobName, JobRunId |-> Some("ALL"),
                                 Type |-> Some(type) ])) ]

\* metricRule(rule, props): the TriggeredRules metric of the rule
metricRule(rule, props) ==
    [ metricName    |-> "TriggeredRules",
      namespace     |-> OrElse(props.namespace, Some("AWS/Events")),
      dimensionsMap |-> OrElse(props.dimensionsMap, Some([ RuleName |-> rule.path ])) ]

metricJobStateRule_checkState(node, tid, rid, jobState) ==
    IF /\ IsDefined(tryFindChild(node.children, rid))
       /\ node.children[rid].eventPattern.detail.state = << jobState >>
    THEN [ node |-> node, raised |-> Undefined, ret |-> Some(<<tid, rid>>) ]
    ELSE onStateChange(node, tid, rid, jobState, NoOptions)

metricJobStateRule_alwaysCreate(node, tid, rid, jobState) ==
    onStateChange(node, tid, rid, jobState, NoOptions)

\* TriggerBase.metricJobStateRule(id, jobState):
\*   this.node.tryFindChild(id) as events.Rule ?? this.onStateChange(id, jobState)
metricJobStateRule(node, tid, rid, jobState) ==
    IF IsDefined(tryFindChild(node.children, rid))
    THEN [ node |-> node, raised |-> Undefined, ret |-> Some(<<tid, rid>>) ]
    ELSE onStateChange(node, tid, rid, jobState, NoOptions)

\* TriggerBase.metricSuccess / metricFailure / metricTimeout (props)
MetricOfRule(r, props) ==
    IF IsDefined(r.raised) THEN r
    ELSE [ r EXCEPT !.ret = Some(metricRule(r.node.children[ValueOf(r.ret)[2]], props)) ]

metricSuccess(node, tid, props) ==
    MetricOfRule(metricJobStateRule(node, tid, "SuccessMetricRule", triggerState.SUCCEEDED), props)

metricFailure(node, tid, props) ==
    MetricOfRule(metricJobStateRule(node, tid, "FailureMetricRule", triggerState.FAILED), props)

metricTimeout(node, tid, props) ==
    MetricOfRule(metricJobStateRule(node, tid, "TimeoutMetricRule", triggerState.TIMEOUT), props)

(***************************************************************************)
(* The calls on a trigger handle.                                          *)
(***************************************************************************)
\* the triggers whose constructor returned a handle with the accessors
Handles == { id \in DOMAIN tree : tree[id].cls = "Trigger" /\ tree[id].constructed }

Rules(node) == { c \in DOMAIN node.children : node.children[c].kind = "Rule" }

\* the call stays within the model's bound on rules
WithinRules(tid, r) == Cardinality(Rules(r.node)) <= MaxRules

Call(op, tid, rid, r) ==
    /\ WithinRules(tid, r)
    /\ tree' = [ tree EXCEPT ![tid] = r.node ]
    /\ lastCall' = [ op |-> op, id |-> tid, rid |-> rid, raised |-> r.raised, ret |-> r.ret ]

OnEvent ==
    \E tid \in Handles, rid \in RuleIds, options \in OptionsSet :
        Call("onEvent", tid, rid, onEvent(tree[tid], tid, rid, options))

OnStateChange ==
    \E tid \in Handles, rid \in RuleIds, jobState \in JobStates, options \in OptionsSet :
        Call("onStateChange", tid, rid, onStateChange(tree[tid], tid, rid, jobState, options))

OnSuccess ==
    \E tid \in Handles, rid \in RuleIds, options \in OptionsSet :
        Call("onSuccess", tid, rid, onSuccess(tree[tid], tid, rid, options))

OnFailure ==
    \E tid \in Handles, rid \in RuleIds, options \in OptionsSet :
        Call("onFailure", tid, rid, onFailure(tree[tid], tid, rid, options))

OnTimeout ==
    \E tid \in Handles, rid \in RuleIds, options \in OptionsSet :
        Call("onTimeout", tid, rid, onTimeout(tree[tid], tid, rid, options))

Metric ==
    \E tid \in Handles, metricName \in MetricNames, type \in MetricTypes,
       props \in MetricOptionsSet :
        /\ tree' = tree
        /\ lastCall' = [ op |-> "metric", id |-> tid, rid |-> "", raised |-> Undefined,
                         ret |-> Some(metric(tree[tid], metricName, type, props)) ]

MetricSuccess ==
    \E tid \in Handles, props \in MetricOptionsSet :
        Call("metricSuccess", tid, "SuccessMetricRule", metricSuccess(tree[tid], tid, props))

MetricFailure ==
    \E tid \in Handles, props \in MetricOptionsSet :
        Call("metricFailure", tid, "FailureMetricRule", metricFailure(tree[tid], tid, props))

MetricTimeout ==
    \E tid \in Handles, props \in MetricOptionsSet :
        Call("metricTimeout", tid, "TimeoutMetricRule", metricTimeout(tree[tid], tid, props))

(***************************************************************************)
(* One trigger and the calls on its handle.                                *)
(***************************************************************************)
EventIds == {"Trigger"}

\* the props of the triggers whose accessors are exercised
EventPropsSet ==
    { p \in TriggerPropsSet :
        /\ p.type = TriggerType.onDemand
        /\ p.predicate = Undefined
        /\ p.triggerName = Undefined
        /\ p.workflowName = Some("") }

DeclareEventTrigger ==
    \E id \in EventIds : \E props \in PropsFor(id, EventPropsSet) : NewTrigger(id, props)

NextEvents ==
    \/ DeclareEventTrigger
    \/ OnEvent
    \/ OnStateChange
    \/ OnSuccess
    \/ OnFailure
    \/ OnTimeout
    \/ Metric
    \/ MetricSuccess
    \/ MetricFailure
    \/ MetricTimeout

SpecEvents == Init /\ [][NextEvents]_vars

(***************************************************************************)
(* The properties.                                                         *)
(***************************************************************************)
\* the record a construct handed to CfnTrigger
Emitted(id) == tree[id].children["Resource"].props

HasEmitted(id) == "Resource" \in DOMAIN tree[id].children

\* the pieces of arn:{partition}:glue:{region}:{account}:trigger/{name}
ArnTemplate(name) ==
    << Lit("arn:"), [Ref |-> "AWS::Partition"], Lit(":"), Lit("glue"), Lit(":"),
       [Ref |-> "AWS::Region"], Lit(":"), [Ref |-> "AWS::AccountId"], Lit(":"),
       Lit("trigger"), Lit("/"), name >>

\* C1: every constructed Trigger has triggerArn equal to the template
\* arn:{partition}:glue:{region}:{account}:trigger/{name}, with the literal
\* resource type "trigger" and, for {name}, the deferred reference that
\* triggerName holds.
C1_ArnIsTemplate ==
    \A id \in DOMAIN tree :
        tree[id].constructed =>
            /\ IsDefined(tree[id].triggerName)
            /\ tree[id].triggerArn = Some(ArnTemplate(ValueOf(tree[id].triggerName)))

C1_Witness ==
    \E id \in DOMAIN tree :
        /\ tree[id].cls = "Trigger"
        /\ tree[id].constructed
        /\ tree[id].triggerName = Some([Ref |-> "TriggerD50EE54C"])

\* the props with the mandatory fields only: type and actions (and the
\* workflowName the test passes along)
OnlyMandatory(props) ==
    /\ props.schedule = Undefined
    /\ props.predicate = Undefined
    /\ props.description = Undefined
    /\ props.startOnCreation = Undefined
    /\ props.triggerName = Undefined
    /\ props.tags = Undefined
    /\ props.role = Undefined

\* C2: a Trigger declared with the mandatory fields only is constructed
\* without raising, with a triggerName and a triggerArn matching the template.
C2_MandatoryOnlyNeverRaises ==
    \A id \in DOMAIN tree :
        (tree[id].cls = "Trigger" /\ OnlyMandatory(tree[id].props)) =>
            /\ tree[id].constructed
            /\ IsDefined(tree[id].triggerName)
            /\ tree[id].triggerArn = Some(ArnTemplate(ValueOf(tree[id].triggerName)))

Declarations == {"new Trigger", "new ScheduledTrigger"}

\* C5: a declaration under an id that is already declared in the scope raises
\* DuplicateDeclarationError, and leaves every node of the scope as it was.
C5_DuplicateIdFails ==
    [][ (lastCall'.op \in Declarations /\ lastCall'.id \in DOMAIN tree) =>
            /\ lastCall'.raised = Some("DuplicateDeclarationError")
            /\ tree' = tree ]_vars

C5_Witness ==
    /\ lastCall.op = "new Trigger"
    /\ lastCall.raised = Some("DuplicateDeclarationError")
    /\ lastCall.id \in DOMAIN tree
    /\ tree[lastCall.id].cls = "Trigger"
    /\ tree[lastCall.id].constructed

TestDefaultProps ==
    [ actions         |-> <<>>,
      description     |-> Undefined,
      predicate       |-> Undefined,
      schedule        |-> Undefined,
      startOnCreation |-> Undefined,
      type            |-> TriggerType.onDemand,
      workflowName    |-> Some(""),
      triggerName     |-> Undefined,
      tags            |-> Undefined,
      role            |-> Undefined ]

\* C7: new Trigger(stack, 'Trigger', {type: ON_DEMAND, actions: [],
\* workflowName: ''}) emits {type: "ON_DEMAND", actions: [], workflowName: ""}
\* with schedule and predicate absent, and its ARN resolves to
\* arn:aws:glue:us-east-1:123456789012:trigger/TriggerD50EE54C.
C7_TestScenario ==
    \A id \in DOMAIN tree :
        (id = "Trigger" /\ tree[id].cls = "Trigger" /\ tree[id].props = TestDefaultProps) =>
            /\ tree[id].constructed
            /\ HasEmitted(id)
            /\ Emitted(id) = [ workflowName    |-> Some(""),
                               tags            |-> Undefined,
                               startOnCreation |-> Undefined,
                               schedule        |-> Undefined,
                               predicate       |-> Undefined,
                               name            |-> Undefined,
                               actions         |-> <<>>,
                               description     |-> Undefined,
                               type            |-> Some("ON_DEMAND") ]
            /\ ResolvePieces(ValueOf(tree[id].triggerArn))
                 = << "arn:", "aws", ":", "glue", ":", "us-east-1", ":", "123456789012",
                      ":", "trigger", "/", "TriggerD50EE54C" >>

\* C8: a SCHEDULED Trigger built with schedule expression S emits schedule = S
\* and type = "SCHEDULED"; a ScheduledTrigger emits type "SCHEDULED" whatever
\* its props are, its schedule expression as given, and never a predicate.
C8_ScheduledRecord ==
    \A id \in DOMAIN tree :
        /\ ( /\ tree[id].cls = "Trigger"
             /\ HasEmitted(id)
             /\ tree[id].props.type = TriggerType.Scheduled
             /\ IsDefined(tree[id].props.schedule) ) =>
               /\ Emitted(id).schedule = Some(ValueOf(tree[id].props.schedule).expressionString)
               /\ Emitted(id).type = Some("SCHEDULED")
        /\ tree[id].cls = "ScheduledTrigger" =>
               /\ HasEmitted(id)
               /\ Emitted(id).type = Some("SCHEDULED")
               /\ Emitted(id).predicate = Undefined
               /\ IsDefined(tree[id].props.schedule) =>
                    Emitted(id).schedule
                      = Some(ValueOf(tree[id].props.schedule).expressionString)

C8_Witness ==
    \E a, b \in DOMAIN tree :
        /\ tree[a].cls = "Trigger"
        /\ tree[a].props.type = TriggerType.Scheduled
        /\ HasEmitted(a)
        /\ Emitted(a).schedule = Some("cron(0 12 * * ? *)")
        /\ tree[b].cls = "ScheduledTrigger"
        /\ Emitted(b).schedule = Some("cron(0 12 * * ? *)")

\* C9: a Trigger built without props.role declares one role, 'ServiceRole',
\* that trusts glue.amazonaws.com and carries service-role/AWSGlueServiceRole,
\* and uses it; one built with props.role uses that role and declares none.
\* grantPrincipal is the role either way, and no trigger declares two roles.
C9_RoleDefaulting ==
    \A id \in DOMAIN tree :
        tree[id].cls = "Trigger" =>
            LET node  == tree[id]
                roles == { c \in DOMAIN node.children : node.children[c].kind = "Role" }
            IN  /\ node.props.role = Undefined =>
                     /\ roles = {"ServiceRole"}
                     /\ node.children["ServiceRole"].assumedBy = "glue.amazonaws.com"
                     /\ node.children["ServiceRole"].managedPolicies
                          = <<"service-role/AWSGlueServiceRole">>
                     /\ node.children["ServiceRole"].path = <<id, "ServiceRole">>
                     /\ node.role = Some(node.children["ServiceRole"])
                /\ IsDefined(node.props.role) =>
                     /\ roles = {}
                     /\ node.role = node.props.role
                /\ node.grantPrincipal = node.role
                /\ Cardinality(roles) <= 1

C9_Witness ==
    \E a, b \in DOMAIN tree :
        /\ tree[a].cls = "Trigger" /\ tree[a].constructed
        /\ tree[a].props.role = Undefined
        /\ "ServiceRole" \in DOMAIN tree[a].children
        /\ tree[b].cls = "Trigger" /\ tree[b].constructed
        /\ tree[b].props.role = Some(ImportedRole)
        /\ tree[b].grantPrincipal = Some(ImportedRole)

EventAccessors == {"onEvent", "onStateChange", "onSuccess", "onFailure", "onTimeout"}

MetricAccessors == {"metric", "metricSuccess", "metricFailure", "metricTimeout"}

\* the step is a call of an event accessor on trigger lastCall'.id with an id
\* that names one of its children already
RepeatedId ==
    /\ lastCall'.op \in EventAccessors
    /\ lastCall'.rid \in DOMAIN tree[lastCall'.id].children

\* the step is a call of an event accessor with an id no child has yet
FreshId ==
    /\ lastCall'.op \in EventAccessors
    /\ lastCall'.rid \notin DOMAIN tree[lastCall'.id].children

\* C4, as stated: the same event accessor called again on the same trigger
\* with the same id does not raise, returns the rule the first call returned
\* and leaves the tree with that one rule.
C4_SecondCallReturnsSameRule ==
    [][ ( /\ lastCall'.op \in EventAccessors
          /\ lastCall.op = lastCall'.op
          /\ lastCall.id = lastCall'.id
          /\ lastCall.rid = lastCall'.rid
          /\ lastCall.raised = Undefined ) =>
            /\ lastCall'.raised = Undefined
            /\ lastCall'.ret = lastCall.ret
            /\ tree' = tree ]_vars

\* C4, amended: an event accessor called with an id no child of the trigger
\* has creates one rule under that id and returns it; called with an id that
\* names a child already (the same accessor called a second time with the
\* same id is such a call) it raises the scope's duplicate error, returns
\* nothing and leaves the tree, the first rule included, as it was.
C4_SecondCallRaises ==
    [][ /\ RepeatedId =>
            /\ lastCall'.raised = Some("DuplicateDeclarationError")
            /\ lastCall'.ret = Undefined
            /\ tree' = tree
        /\ FreshId =>
            LET id  == lastCall'.id
                rid == lastCall'.rid
            IN  /\ lastCall'.raised = Undefined
                /\ lastCall'.ret = Some(<<id, rid>>)
                /\ DOMAIN tree'[id].children = DOMAIN tree[id].children \cup {rid}
                /\ tree'[id].children[rid].kind = "Rule"
                /\ tree'[id].children[rid].path = <<id, rid>>
                /\ \A c \in DOMAIN tree[id].children :
                       tree'[id].children[c] = tree[id].children[c] ]_vars

C4_Witness ==
    /\ lastCall.op = "onSuccess"
    /\ lastCall.raised = Some("DuplicateDeclarationError")
    /\ lastCall.rid \in Rules(tree[lastCall.id])
    /\ tree[lastCall.id].children[lastCall.rid].eventPattern.detail.state
         = << triggerState.SUCCEEDED >>
    /\ Cardinality(Rules(tree[lastCall.id])) = 1

\* C10: a Trigger whose constructor returns has the children 'Resource' (the
\* resource declaration) and, if and only if props.role was not given,
\* 'ServiceRole' (a role); after that the children of a trigger change only
\* in a call of an event or metric accessor on that trigger.
C10_ChildrenOfTrigger ==
    [][ /\ ( /\ lastCall'.op = "new Trigger"
             /\ lastCall'.raised = Undefined ) =>
               LET node == tree'[lastCall'.id]
               IN  /\ lastCall'.id \notin DOMAIN tree
                   /\ DOMAIN node.children
                        = {"Resource"} \cup (IF node.props.role = Undefined
                                             THEN {"ServiceRole"} ELSE {})
                   /\ node.children["Resource"].kind = "CfnTrigger"
                   /\ node.props.role = Undefined =>
                        node.children["ServiceRole"].kind = "Role"
        /\ \A id \in DOMAIN tree :
               tree'[id].children # tree[id].children =>
                   /\ lastCall'.op \in EventAccessors \cup MetricAccessors
                   /\ lastCall'.id = id ]_vars

C10_Witness ==
    /\ lastCall.op = "metricFailure"
    /\ lastCall.raised = Undefined
    /\ tree[lastCall.id].props.role = Undefined
    /\ DOMAIN tree[lastCall.id].children = {"Resource", "ServiceRole", "FailureMetricRule"}

\* what a trigger handle shows of its declaration: the type, name and actions
\* of the record it emitted, and its own triggerName, triggerArn, role and
\* grantPrincipal
Declared(node) ==
    LET res == node.children["Resource"]
    IN  IF res.kind # "CfnTrigger" THEN [ kind |-> res.kind ]
        ELSE [ kind           |-> res.kind,
               type           |-> res.props.type,
               name           |-> res.props.name,
               actions        |-> res.props.actions,
               triggerName    |-> node.triggerName,
               triggerArn     |-> node.triggerArn,
               role           |-> node.role,
               grantPrincipal |-> node.grantPrincipal ]

\* C11: once a trigger is constructed, no step (a call of onEvent,
\* onStateChange, onSuccess, onFailure, onTimeout, metric, metricSuccess,
\* metricFailure or metricTimeout, raising or not) changes the type, name or
\* actions of the record it emitted, nor its triggerName, triggerArn, role or
\* grantPrincipal; the record's type is the one type the trigger was created
\* with.
C11_HandleIsImmutable ==
    [][ \A id \in Handles :
          /\ id \in Handles'
          /\ Declared(tree'[id]) = Declared(tree[id])
          /\ Declared(tree'[id]).kind = "CfnTrigger"
          /\ Declared(tree'[id]).type = Some(tree'[id].props.type.name) ]_vars

C11_Witness ==
    /\ lastCall.op = "onEvent"
    /\ lastCall.rid = "Resource"
    /\ lastCall.raised = Some("DuplicateDeclarationError")
    /\ Cardinality(Rules(tree[lastCall.id])) = 2
    /\ Declared(tree[lastCall.id]).type = Some("ON_DEMAND")


\* the type tokens of the trigger resource
TypeTokens == {"SCHEDULED", "EVENT", "ON_DEMAND", "CONDITIONAL"}

\* C12, as stated: the type field of every emitted trigger record is one of
\* the four tokens SCHEDULED, EVENT, ON_DEMAND, CONDITIONAL, whichever value
\* of TriggerType the caller passed.
C12_TypeIsOneOfFour ==
    \A id \in DOMAIN tree :
        HasEmitted(id) =>
            /\ IsDefined(Emitted(id).type)
            /\ ValueOf(Emitted(id).type) \in TypeTokens

\* the states the external system reports for a trigger
StateVocabulary ==
    { "CREATING", "CREATED", "ACTIVATING", "ACTIVATED",
      "DEACTIVATING", "DEACTIVATED", "UPDATING", "DELETING" }

\* C13, as stated: the TriggerState a declared construct's module exports has
\* exactly the eight members CREATING, CREATED, ACTIVATING, ACTIVATED,
\* DEACTIVATING, DEACTIVATED, UPDATING, DELETING, and the token of each
\* member is its name, character for character.
C13_StateTokensAreNames ==
    \A id \in DOMAIN tree :
        LET enum == TriggerStateOf(tree[id].cls)
        IN  /\ DOMAIN enum = StateVocabulary
            /\ \A m \in DOMAIN enum : enum[m] = m

\* the construct was declared as a SCHEDULED trigger without a schedule
\* expression
ScheduledWithoutSchedule(node) ==
    /\ node.props.schedule = Undefined
    /\ \/ node.cls = "ScheduledTrigger"
       \/ node.cls = "Trigger" /\ node.props.type = TriggerType.Scheduled

\* C14, as stated: a SCHEDULED trigger declared without a schedule
\* expression is constructed, its resource node is registered, and the record
\* it emits has type SCHEDULED and no schedule field.
C14_ScheduleMayBeAbsent ==
    \A id \in DOMAIN tree :
        ScheduledWithoutSchedule(tree[id]) =>
            /\ tree[id].constructed
            /\ HasEmitted(id)
            /\ Emitted(id).type = Some("SCHEDULED")
            /\ Emitted(id).schedule = Undefined

\* the constructed triggers that were declared without a triggerName
Unnamed == { id \in DOMAIN tree : tree[id].constructed /\ tree[id].props.triggerName = Undefined }

StateOf(op) ==
    CASE op = "onSuccess" -> << triggerState.SUCCEEDED >>
      [] op = "onFailure" -> << triggerState.FAILED >>
      [] op = "onTimeout" -> << triggerState.TIMEOUT >>

\* C16, as stated: the rule an event accessor returns has a pattern with
\* source ['aws.glue'], detail-type ['Glue Job State Change', 'Glue Job Run
\* Status'] and the detail name field [the trigger's resolved name], whatever
\* the caller passed in options.eventPattern; the rule of onSuccess, onFailure
\* and onTimeout matches detail.state = [SUCCEEDED], [FAILED] and [TIMEOUT]
\* only, and the rule of onStateChange matches one state only.
C16_RulePattern ==
    [][ ( lastCall'.op \in EventAccessors /\ lastCall'.raised = Undefined ) =>
          LET node    == tree'[lastCall'.id]
              pattern == node.children[lastCall'.rid].eventPattern
          IN  /\ pattern.source = << "aws.glue" >>
              /\ pattern.detailType = << "Glue Job State Change", "Glue Job Run Status" >>
              /\ pattern.detail.jobName = << node.triggerName >>
              /\ lastCall'.op # "onEvent" => Len(pattern.detail.state) = 1
              /\ lastCall'.op \in {"onSuccess", "onFailure", "onTimeout"} =>
                    pattern.detail.state = StateOf(lastCall'.op) ]_vars

\* C17, as stated: on every trigger handle, for every name, kind and props,
\* metric(name, kind, props) is the time series with metric name `name`,
\* namespace 'Glue' and the dimensions JobName = the trigger's resolved name,
\* JobRunId = 'ALL', Type = kind, where a namespace or dimensionsMap given in
\* props takes the place of the default.
C17_MetricOfTrigger ==
    \A tid \in Handles, name \in MetricNames, kind \in MetricTypes, props \in MetricOptionsSet :
        metric(tree[tid], name, kind, props) =
            [ metricName    |-> name,
              namespace     |-> IF IsDefined(props.namespace) THEN props.namespace
                                ELSE Some("Glue"),
              dimensionsMap |-> IF IsDefined(props.dimensionsMap) THEN props.dimensionsMap
                                ELSE Some([ JobName  |-> tree[tid].triggerName,
                                            JobRunId |-> Some("ALL"),
                                            Type     |-> Some(kind) ]) ]

\* the rule id and the state of each semantic event
RuleOfEvent ==
    [ metricSuccess |-> [ id |-> "SuccessMetricRule", state |-> triggerState.SUCCEEDED ],
      metricFailure |-> [ id |-> "FailureMetricRule", state |-> triggerState.FAILED ],
      metricTimeout |-> [ id |-> "TimeoutMetricRule", state |-> triggerState.TIMEOUT ] ]

\* C18: a call of metricSuccess, metricFailure or metricTimeout never raises
\* and returns a metric on the trigger's child rule with the fixed id of its
\* event; when the trigger has no child with that id the call creates the
\* rule, matching the event's state, and when it has one the call creates
\* nothing and returns a metric on that child.  So the trigger has one child
\* per event however often and in whatever order the three are called.
C18_OneRulePerEvent ==
    [][ lastCall'.op \in DOMAIN RuleOfEvent =>
          LET id  == lastCall'.id
              ev  == RuleOfEvent[lastCall'.op]
          IN  /\ lastCall'.raised = Undefined
              /\ lastCall'.rid = ev.id
              /\ ev.id \in Rules(tree'[id])
              /\ \E props \in MetricOptionsSet :
                    lastCall'.ret = Some(metricRule(tree'[id].children[ev.id], props))
              /\ ev.id \in DOMAIN tree[id].children => tree' = tree
              /\ ev.id \notin DOMAIN tree[id].children =>
                    /\ DOMAIN tree'[id].children = DOMAIN tree[id].children \cup {ev.id}
                    /\ tree'[id].children[ev.id].eventPattern.detail.state = << ev.state >>
                    /\ \A c \in DOMAIN tree[id].children :
                          tree'[id].children[c] = tree[id].children[c] ]_vars

C18_Witness ==
    /\ lastCall.op = "metricTimeout"
    /\ lastCall.raised = Undefined
    /\ Rules(tree[lastCall.id]) = {"SuccessMetricRule", "TimeoutMetricRule"}
    /\ \A op \in {"metricSuccess", "metricTimeout"} :
          tree[lastCall.id].children[RuleOfEvent[op].id].eventPattern.detail.state
            = << RuleOfEvent[op].state >>

\* the errors of declaration time
DeclarationErrors == {"ValidationError", "DuplicateDeclarationError"}

\* C19, as stated: an error that the construction of a Trigger raises is a
\* ValidationError or a DuplicateDeclarationError, and the constructor has
\* attempted each registration at most once: the node of a trigger that
\* raised has at most the children 'ServiceRole' and 'Resource'.
C19_ErrorsOfDeclaration ==
    /\ ( lastCall.op = "new Trigger" /\ IsDefined(lastCall.raised) ) =>
            ValueOf(lastCall.raised) \in DeclarationErrors
    /\ \A id \in DOMAIN tree :
          ( tree[id].cls = "Trigger" /\ ~tree[id].constructed ) =>
              DOMAIN tree[id].children \subseteq {"ServiceRole", "Resource"}

C21_ConstructionIsAllOrNothing ==
    [][ ( lastCall'.op = "new Trigger" /\ IsDefined(lastCall'.raised) ) =>
          tree' = tree ]_vars

====
